---- MODULE Spec2Model ----
(***************************************************************************)
(* Model of pkg/hostpath/lvm.go: the LVM thin-volume lifecycle manager.    *)
(*                                                                         *)
(* The Go code keeps no state of its own (LVM holds only vg and thinpool); *)
(* everything it changes lives behind the external commands it runs:       *)
(* the volume group's logical volumes, the mount table and the mount       *)
(* directories.  Those are the state variables.  Each caller is a process  *)
(* whose position is the external invocation it is about to make, so that  *)
(* calls interleave at invocation granularity.                             *)
(***************************************************************************)
EXTENDS Integers, Sequences, FiniteSets, TLC

\***************************************************************************
\* Bounds and finite input sets
\***************************************************************************
\* Longest stack of mounts kept on one mount path.
MaxMountEntries == 2

\* Longest size string tried exhaustively by the size conversion.
MaxSizeLen == 3

\* Concurrent callers of the LVM object.
Procs == {1, 2}

\* Logical volume names (== volume identifiers, lvm.go:181).
Names == {"a", "b"}

\* --virtualsize arguments given to createThinLV.
Sizes == {"4M", "1G"}

\* Strings that the code splits or matches are sequences of characters.
Chars(s) ==
    CASE s = "o=a"  -> <<"o", "=", "a">>
      [] s = "o=b"  -> <<"o", "=", "b">>
      [] s = "ow=a" -> <<"o", "w", "=", "a">>
      [] s = "w=a=b" -> <<"w", "=", "a", "=", "b">>
      [] s = "o"    -> <<"o">>
      [] s = "ow"   -> <<"o", "w">>
      [] s = "w"    -> <<"w">>
      [] s = "a"    -> <<"a">>
      [] s = "b"    -> <<"b">>
      [] s = ""     -> <<>>
      [] s = "4194304B"    -> <<"4", "1", "9", "4", "3", "0", "4", "B">>
      [] s = "1073741824B" -> <<"1", "0", "7", "3", "7", "4", "1", "8", "2", "4", "B">>

\* Tag lists given to createThinLV: none, one tag, a tag whose value holds
\* a "=", two tags with distinct keys of which one is a prefix of the other,
\* two tags with the same key.
TagLists ==
    { <<>>,
      <<Chars("o=a")>>,
      <<Chars("w=a=b")>>,
      <<Chars("ow=a"), Chars("o=b")>>,
      <<Chars("o=a"), Chars("o=b")>> }

\* Keys looked up with FindTag (a key holds no "=").
Keys == {Chars("o"), Chars("ow"), Chars("w")}

\***************************************************************************
\* LVM object (lvm.go:18-28)
\***************************************************************************
vg == "vg"
thinpool == "thinpool"

volumePathOf(lvName) == "/volumes/" \o vg \o "/" \o lvName

\***************************************************************************
\* strings.* helpers of the Go standard library, on character sequences
\***************************************************************************
HasPrefix(s, prefix) ==
    /\ Len(prefix) <= Len(s)
    /\ SubSeq(s, 1, Len(prefix)) = prefix

TrimPrefix(s, prefix) ==
    IF HasPrefix(s, prefix) THEN SubSeq(s, Len(prefix) + 1, Len(s)) ELSE s

\* Index of the first sep in s, 0 when there is none.
IndexOf(s, sep) ==
    IF \E i \in 1..Len(s) : s[i] = sep
    THEN CHOOSE i \in 1..Len(s) : s[i] = sep /\ \A j \in 1..(i - 1) : s[j] # sep
    ELSE 0

\* strings.Split(s, sep) for a one-character sep: always at least one field.
RECURSIVE Split(_, _)
Split(s, sep) ==
    LET i == IndexOf(s, sep) IN
    IF i = 0 THEN <<s>>
    ELSE <<SubSeq(s, 1, i - 1)>> \o Split(SubSeq(s, i + 1, Len(s)), sep)

\* strings.Join(elems, sep)
RECURSIVE Join(_, _)
Join(elems, sep) ==
    IF elems = <<>> THEN <<>>
    ELSE IF Len(elems) = 1 THEN elems[1]
    ELSE elems[1] \o <<sep>> \o Join(Tail(elems), sep)

\* strings.Contains(stderr, phrase): diagnostics are sequences of phrases.
Contains(stderr, phrase) == \E i \in 1..Len(stderr) : stderr[i] = phrase

\***************************************************************************
\* reportLV (lvm.go:38-52) and FindTag (lvm.go:79-87)
\***************************************************************************
NoInfo == [lv_name |-> "", lv_size |-> <<>>, lv_tags |-> <<>>]

FindTagPrefixOnly(r, key) ==
    LET kvs == Split(r.lv_tags, ",")
        hit == {i \in 1..Len(kvs) : HasPrefix(kvs[i], key)}
    IN  IF hit = {} THEN [v |-> <<>>, found |-> FALSE]
        ELSE LET i == CHOOSE i \in hit : \A j \in hit : i <= j
             IN  [v |-> TrimPrefix(kvs[i], key), found |-> TRUE]

FindTag(r, key) ==
    LET kvs == Split(r.lv_tags, ",")
        hit == {i \in 1..Len(kvs) : HasPrefix(kvs[i], key \o <<"=">>)}
    IN  IF hit = {} THEN [v |-> <<>>, found |-> FALSE]
        ELSE LET i == CHOOSE i \in hit : \A j \in hit : i <= j
             IN  [v |-> TrimPrefix(kvs[i], key \o <<"=">>), found |-> TRUE]

\***************************************************************************
\* Outcome of c.Run() on an exec.Cmd: nil, an *exec.ExitError carrying the
\* exit code (with the captured stderr), or another error (the binary could
\* not be started).  A process killed by context cancellation is an
\* ExitError with code -1.
\***************************************************************************
RunOk == [kind |-> "ok", code |-> 0, stderr |-> <<>>]
Exit(code, stderr) == [kind |-> "exit", code |-> code, stderr |-> stderr]
Killed == [kind |-> "exit", code |-> -1, stderr |-> <<>>]
NotStarted == [kind |-> "other", code |-> 0, stderr |-> <<>>]

\* Errors are chains of messages, outermost first; the empty chain is nil.
NoErr == <<>>
ErrRun == <<"error running command">>

\* stdout of /sbin/lvs as json.Unmarshal sees it: not JSON at all, or a
\* document with a list of report sections, each a list of LV entries.
Doc(reports) == [json |-> TRUE, reports |-> reports]
BadJSON == [json |-> FALSE, reports |-> <<>>]

\***************************************************************************
\* Result classification of the external invocations
\***************************************************************************
\* runLVSReport (lvm.go:89-130): volumeName is the optional name filter, run
\* the outcome of c.Run(), stdout the captured output.
runLVSReportNoAbsorb(volumeName, run, stdout) ==
    IF run.kind # "ok" THEN [err |-> ErrRun, report |-> <<>>]
    ELSE IF ~stdout.json THEN [err |-> <<"error parsing output">>, report |-> <<>>]
    ELSE IF Len(stdout.reports) # 1
         THEN [err |-> <<"got n reports, expected exactly 1">>, report |-> <<>>]
    ELSE [err |-> NoErr, report |-> stdout.reports[1]]

runLVSReportAnyFilter(volumeName, run, stdout) ==
    LET isNotFound ==
            /\ run.kind = "exit"
            /\ run.code = 5
            /\ Contains(run.stderr, "Failed to find logical volume")
    IN  IF run.kind # "ok" /\ ~isNotFound
        THEN [err |-> ErrRun, report |-> <<>>]
        ELSE IF ~stdout.json
        THEN [err |-> <<"error parsing output">>, report |-> <<>>]
        ELSE IF Len(stdout.reports) # 1
        THEN [err |-> <<"got n reports, expected exactly 1">>, report |-> <<>>]
        ELSE [err |-> NoErr, report |-> stdout.reports[1]]

runLVSReportFirstReport(volumeName, run, stdout) ==
    LET matched ==
            /\ run.kind = "exit"
            /\ run.code = 5
            /\ Contains(run.stderr, "Failed to find logical volume")
        isNotFound == IF volumeName = "" THEN FALSE ELSE matched
    IN  IF run.kind # "ok" /\ ~isNotFound
        THEN [err |-> ErrRun, report |-> <<>>]
        ELSE IF ~stdout.json
        THEN [err |-> <<"error parsing output">>, report |-> <<>>]
        ELSE IF Len(stdout.reports) = 0
        THEN [err |-> <<"got n reports, expected exactly 1">>, report |-> <<>>]
        ELSE [err |-> NoErr, report |-> stdout.reports[1]]

runLVSReportAnyExit(volumeName, run, stdout) ==
    LET isNotFound == IF volumeName = "" THEN FALSE ELSE run.kind = "exit"
    IN  IF run.kind # "ok" /\ ~isNotFound
        THEN [err |-> ErrRun, report |-> <<>>]
        ELSE IF ~stdout.json
        THEN [err |-> <<"error parsing output">>, report |-> <<>>]
        ELSE IF Len(stdout.reports) # 1
        THEN [err |-> <<"got n reports, expected exactly 1">>, report |-> <<>>]
        ELSE [err |-> NoErr, report |-> stdout.reports[1]]

runLVSReport(volumeName, run, stdout) ==
    LET matched ==
            /\ run.kind = "exit"
            /\ run.code = 5
            /\ Contains(run.stderr, "Failed to find logical volume")
        isNotFound == IF volumeName = "" THEN FALSE ELSE matched
    IN  IF run.kind # "ok" /\ ~isNotFound
        THEN [err |-> ErrRun, report |-> <<>>]
        ELSE IF ~stdout.json
        THEN [err |-> <<"error parsing output">>, report |-> <<>>]
        ELSE IF Len(stdout.reports) # 1
        THEN [err |-> <<"got n reports, expected exactly 1">>, report |-> <<>>]
        ELSE [err |-> NoErr, report |-> stdout.reports[1]]

\* findLVInfo (lvm.go:261-273): found = FALSE with a nil error is the
\* (nil, nil) return.
findLVInfoPickFirst(vgName, lvName, run, stdout) ==
    LET r == runLVSReport(vgName \o "/" \o lvName, run, stdout) IN
    IF r.err # NoErr THEN [err |-> r.err, found |-> FALSE, info |-> NoInfo]
    ELSE IF Len(r.report) = 0 THEN [err |-> NoErr, found |-> FALSE, info |-> NoInfo]
    ELSE [err |-> NoErr, found |-> TRUE, info |-> r.report[1]]

findLVInfo(vgName, lvName, run, stdout) ==
    LET r == runLVSReport(vgName \o "/" \o lvName, run, stdout) IN
    IF r.err # NoErr THEN [err |-> r.err, found |-> FALSE, info |-> NoInfo]
    ELSE IF Len(r.report) > 1
    THEN [err |-> <<"unexpectedly found multiple logical volumes">>,
          found |-> FALSE, info |-> NoInfo]
    ELSE IF Len(r.report) = 0 THEN [err |-> NoErr, found |-> FALSE, info |-> NoInfo]
    ELSE [err |-> NoErr, found |-> TRUE, info |-> r.report[1]]

\* ensureMountLV (lvm.go:275-307): mkdirOk is the outcome of os.MkdirAll,
\* run the outcome of /bin/mount (not run at all when MkdirAll failed).
ensureMountLVNoAbsorb(mkdirOk, run) ==
    IF ~mkdirOk THEN <<"error creating mount directory">>
    ELSE IF run.kind # "ok" THEN ErrRun
    ELSE NoErr

ensureMountLVSwallow(mkdirOk, run) ==
    IF ~mkdirOk THEN <<"error creating mount directory">> ELSE NoErr

ensureMountLV(mkdirOk, run) ==
    LET isAlreadyMounted ==
            /\ run.kind = "exit"
            /\ run.code = 32
            /\ Contains(run.stderr, "already mounted on")
    IN  IF ~mkdirOk THEN <<"error creating mount directory">>
        ELSE IF run.kind # "ok" /\ ~isAlreadyMounted THEN ErrRun
        ELSE NoErr

\* ensureUnmountLV (lvm.go:309-322)
ensureUnmountLVSwallow(run) == NoErr

ensureUnmountLVOnlyExit32(run) ==
    IF run.kind = "exit" /\ run.code = 32 THEN ErrRun ELSE NoErr

ensureUnmountLV(run) == IF run.kind # "ok" THEN ErrRun ELSE NoErr

\* mkfsExt4 (lvm.go:324-341)
mkfsExt4Swallow(run) == NoErr

mkfsExt4(run) == IF run.kind # "ok" THEN ErrRun ELSE NoErr

\* The /sbin/lvcreate invocation of createThinLV (lvm.go:215-223)
lvcreateErr(run) == IF run.kind # "ok" THEN ErrRun ELSE NoErr

\* The /sbin/lvremove invocation of deleteLV (lvm.go:248-256)
lvremoveErr(run) == IF run.kind # "ok" THEN ErrRun ELSE NoErr

\***************************************************************************
\* Results of the lifecycle operations
\***************************************************************************
\* kind: "none" while the call runs, "handle" (*LVMVolume, nil),
\* "nil" (nil, nil), "ok" (deleteLV's nil error), "error".
NoRes == [kind |-> "none", err |-> NoErr, info |-> NoInfo, path |-> ""]
Failed(err) == [kind |-> "error", err |-> err, info |-> NoInfo, path |-> ""]
NilRes == [kind |-> "nil", err |-> NoErr, info |-> NoInfo, path |-> ""]
OkRes == [kind |-> "ok", err |-> NoErr, info |-> NoInfo, path |-> ""]
Handle(path, info) == [kind |-> "handle", err |-> NoErr, info |-> info, path |-> path]

\* The tail of createThinLV (lvm.go:229-236): what it makes of the result
\* of findVolumeByLVName.
createThinLVResultPassNil(found) ==
    IF found.kind = "error"
    THEN Failed(<<"error getting lv info for newly created volume">> \o found.err)
    ELSE found

createThinLVResult(found) ==
    IF found.kind = "error"
    THEN Failed(<<"error getting lv info for newly created volume">> \o found.err)
    ELSE IF found.kind = "nil"
    THEN Failed(<<"could not find LV info for newly created volume">>)
    ELSE found

\***************************************************************************
\* LVMVolume.VolumeSizeBytes (lvm.go:58-77) on character sequences.  An
\* int64 is kept as sign and magnitude, the magnitude as its decimal digits
\* without leading zeros (<<>> is 0), so that the whole 64-bit range and both
\* of its ends are there.
\***************************************************************************
Digits == {"0", "1", "2", "3", "4", "5", "6", "7", "8", "9"}
DigitVal(c) ==
    CASE c = "0" -> 0 [] c = "1" -> 1 [] c = "2" -> 2 [] c = "3" -> 3
      [] c = "4" -> 4 [] c = "5" -> 5 [] c = "6" -> 6 [] c = "7" -> 7
      [] c = "8" -> 8 [] c = "9" -> 9

\* 1<<64 - 1, the largest value strconv.ParseUint(s, 10, 64) returns
MaxUint64 == <<1, 8, 4, 4, 6, 7, 4, 4, 0, 7, 3, 7, 0, 9, 5, 5, 1, 6, 1, 5>>
\* 1<<63, the cutoff of strconv.ParseInt(s, 10, 64)
CutoffInt64 == <<9, 2, 2, 3, 3, 7, 2, 0, 3, 6, 8, 5, 4, 7, 7, 5, 8, 0, 8>>

\* a < b for magnitudes
MagLess(a, b) ==
    \/ Len(a) < Len(b)
    \/ /\ Len(a) = Len(b)
       /\ \E i \in 1..Len(a) :
            /\ a[i] < b[i]
            /\ \A j \in 1..(i - 1) : a[j] = b[j]

\* n*10 + d
MulAdd(m, d) == IF m = <<>> /\ d = 0 THEN <<>> ELSE Append(m, d)

Int64(neg, mag) == [neg |-> neg /\ mag # <<>>, mag |-> mag]
Parsed(err, n) == [err |-> err, n |-> n]
ErrSyntax == <<"invalid syntax">>
ErrRange == <<"value out of range">>
\* no conversion made yet
NoSize == Parsed(<<"not converted">>, Int64(FALSE, <<>>))

HasSuffix(s, c) == Len(s) >= 1 /\ s[Len(s)] = c
TrimSuffix(s, c) == IF HasSuffix(s, c) THEN SubSeq(s, 1, Len(s) - 1) ELSE s

\* strconv.ParseUint(s, 10, 64): digit by digit, stopping at the first
\* character that is no digit and at the first value above 1<<64 - 1.
RECURSIVE ParseUintFrom(_, _, _)
ParseUintFrom(s, i, m) ==
    IF i > Len(s) THEN Parsed(NoErr, m)
    ELSE IF s[i] \notin Digits THEN Parsed(ErrSyntax, <<>>)
    ELSE LET m1 == MulAdd(m, DigitVal(s[i])) IN
         IF MagLess(MaxUint64, m1) THEN Parsed(ErrRange, MaxUint64)
         ELSE ParseUintFrom(s, i + 1, m1)

ParseUint(s) == IF s = <<>> THEN Parsed(ErrSyntax, <<>>) ELSE ParseUintFrom(s, 1, <<>>)

\* strconv.ParseInt(s, 10, 64): an optional sign, then ParseUint, then the
\* range of a signed 64-bit integer.
ParseInt(s) ==
    IF s = <<>> THEN Parsed(ErrSyntax, Int64(FALSE, <<>>))
    ELSE LET neg == s[1] = "-"
             rest == IF s[1] \in {"+", "-"} THEN Tail(s) ELSE s
             un == ParseUint(rest)
         IN  IF un.err # NoErr THEN Parsed(un.err, Int64(FALSE, <<>>))
             ELSE IF ~neg /\ ~MagLess(un.n, CutoffInt64)
             THEN Parsed(ErrRange, Int64(FALSE, <<>>))
             ELSE IF neg /\ MagLess(CutoffInt64, un.n)
             THEN Parsed(ErrRange, Int64(FALSE, <<>>))
             ELSE Parsed(NoErr, Int64(neg, un.n))

VolumeSizeBytesUpperOnly(s) ==
    IF HasSuffix(s, "B")
    THEN LET r == ParseInt(TrimSuffix(s, "B")) IN
         IF r.err # NoErr
         THEN Parsed(<<"error parsing size">> \o r.err, Int64(FALSE, <<>>))
         ELSE r
    ELSE Parsed(<<"cannot parse size (unknown suffix)">>, Int64(FALSE, <<>>))

\* The multiplier is 1 on both branches (lvm.go:63, 66), so n *= multiplier
\* (lvm.go:75) leaves n as parsed.
VolumeSizeBytes(s) ==
    LET trimmed == IF HasSuffix(s, "B") THEN TrimSuffix(s, "B")
                   ELSE TrimSuffix(s, "b")
    IN  IF ~HasSuffix(s, "B") /\ ~HasSuffix(s, "b")
        THEN Parsed(<<"cannot parse size (unknown suffix)">>, Int64(FALSE, <<>>))
        ELSE LET r == ParseInt(trimmed) IN
             IF r.err # NoErr
             THEN Parsed(<<"error parsing size">> \o r.err, Int64(FALSE, <<>>))
             ELSE r

\***************************************************************************
\* State
\***************************************************************************
VARIABLES
    faulty,   \* the environment may make any invocation fail (cancellation,
              \* a killed process, malformed output); fixed per behaviour
    serial,   \* the caller runs one lifecycle operation at a time; fixed
    lv,       \* the volume group: name -> logical volume
    mounts,   \* the mount table: name of /volumes/vg/<name> -> mount stack
    dirs,     \* names whose mount directory /volumes/vg/<name> exists
    handles,  \* names for which a caller holds a *LVMVolume
    pc,       \* per process: the invocation it makes next
    op,       \* per process: the call in progress and its arguments
    log,      \* per process: the invocations of the call so far, in order
    res,      \* per process: the pending record, then the return value
    overlap,  \* names on which two calls have been in progress at once
    cin,      \* input of the last classification (SpecClassify only)
    cout,     \* its result
    sizeIn,   \* lv_size given to the last size conversion (SpecSize only)
    sizeOut   \* its result

vars == <<faulty, serial, lv, mounts, dirs, handles, pc, op, log, res,
          overlap, cin, cout, sizeIn, sizeOut>>

NoLV == [exists |-> FALSE, size |-> "", tags |-> <<>>, formatted |-> FALSE]
NoOp == [kind |-> "idle", name |-> "", size |-> "", tags |-> <<>>]
NoIn == [cmd |-> "", volumeName |-> "", run |-> RunOk, stdout |-> BadJSON,
         mkdirOk |-> TRUE]
NoOut == [err |-> NoErr, report |-> <<>>]

\* A live mount entry of device /dev/vg/<d> on the path of n.
LiveOn(n, d) ==
    \E i \in 1..Len(mounts[n]) : mounts[n][i].dev = d /\ ~mounts[n][i].stale
InUse(d) == \E n \in Names : LiveOn(n, d)
Mounted(n) == mounts[n] # <<>>

\***************************************************************************
\* The external commands: what each answers in the current state, as a set
\* of [run, lv, mounts] (and stdout for lvs).  When faulty, every command
\* may also fail without effect.
\***************************************************************************
FaultRuns == IF faulty THEN {Exit(1, <<"failed">>), Killed} ELSE {}
NoEffect(runs) == {[run |-> r, lv |-> lv, mounts |-> mounts] : r \in runs}

\* lvs --units=b prints sizes in bytes.
ReportedSize(size) ==
    CASE size = "4M" -> Chars("4194304B")
      [] size = "1G" -> Chars("1073741824B")

\* The order in which lvs lists the tags of a volume is its own.
Orders(tags) ==
    LET I == 1..Len(tags) IN
    { [i \in I |-> tags[f[i]]] :
        f \in {g \in [I -> I] : \A i, j \in I : g[i] = g[j] => i = j} }

Entries(n) ==
    { [lv_name |-> n, lv_size |-> ReportedSize(lv[n].size),
       lv_tags |-> Join(o, ",")] : o \in Orders(lv[n].tags) }

\* /sbin/lvs --reportformat=json ... vg/<n>  (lvm.go:90-102)
LvsResponses(n) ==
    LET answered ==
            IF lv[n].exists
            THEN {[run |-> RunOk, stdout |-> Doc(<< <<e>> >>)] : e \in Entries(n)}
            ELSE {[run |-> Exit(5, <<"Failed to find logical volume">>),
                   stdout |-> Doc(<< <<>> >>)]}
        failed == {[run |-> r, stdout |-> BadJSON] : r \in FaultRuns}
        malformed ==
            IF faulty
            THEN {[run |-> RunOk, stdout |-> d] :
                    d \in {BadJSON, Doc(<<>>), Doc(<< <<>>, <<>> >>), Doc(<< <<>> >>)}}
                 \cup {[run |-> RunOk, stdout |-> Doc(<< <<e, e>> >>)] :
                         e \in IF lv[n].exists THEN Entries(n) ELSE {}}
                 \cup {[run |-> Exit(5, <<"Failed to find logical volume">>),
                        stdout |-> BadJSON]}
            ELSE {}
    IN  answered \cup failed \cup malformed

\* /sbin/lvcreate --virtualsize <size> --thinpool ... --name <n> --addtag ...
\* (lvm.go:204-219)
LvcreateResponses(n, size, tags) ==
    (IF lv[n].exists
     THEN NoEffect({Exit(5, <<"already exists">>)})
     ELSE {[run |-> RunOk,
            lv |-> [lv EXCEPT ![n] = [exists |-> TRUE, size |-> size,
                                     tags |-> tags, formatted |-> FALSE]],
            mounts |-> mounts]})
    \cup NoEffect(FaultRuns)

\* /sbin/mkfs.ext4 -L <n> /dev/vg/<n>  (lvm.go:325-334)
MkfsResponses(n) ==
    (IF ~lv[n].exists THEN NoEffect({Exit(1, <<"does not exist">>)})
     ELSE IF InUse(n) THEN NoEffect({Exit(1, <<"is mounted">>)})
     ELSE {[run |-> RunOk, lv |-> [lv EXCEPT ![n].formatted = TRUE],
            mounts |-> mounts]})
    \cup NoEffect(FaultRuns)

\* /bin/mount --make-shared -t ext4 /dev/vg/<d> /volumes/vg/<n>
\* (lvm.go:283-288)
MountResponses(d, n) ==
    (IF ~(d \in Names /\ lv[d].exists)
     THEN NoEffect({Exit(32, <<"special device does not exist">>)})
     ELSE IF LiveOn(n, d) THEN NoEffect({Exit(32, <<"already mounted on">>)})
     ELSE IF ~lv[d].formatted THEN NoEffect({Exit(32, <<"wrong fs type">>)})
     ELSE IF Len(mounts[n]) < MaxMountEntries
     THEN {[run |-> RunOk, lv |-> lv,
            mounts |-> [mounts EXCEPT
                          ![n] = Append(@, [dev |-> d, stale |-> FALSE])]]}
     ELSE {})
    \cup NoEffect(FaultRuns)

\* /bin/umount /volumes/vg/<n>  (lvm.go:310-315)
UmountResponsesAll(n) ==
    (IF Mounted(n)
     THEN {[run |-> RunOk, lv |-> lv, mounts |-> [m \in Names |-> <<>>]]}
     ELSE NoEffect({Exit(32, <<"not mounted">>)}))
    \cup NoEffect(FaultRuns)

UmountResponses(n) ==
    (IF Mounted(n)
     THEN {[run |-> RunOk, lv |-> lv,
            mounts |-> [mounts EXCEPT ![n] = SubSeq(@, 1, Len(@) - 1)]]}
     ELSE NoEffect({Exit(32, <<"not mounted">>)}))
    \cup NoEffect(FaultRuns)

\* /sbin/lvremove --yes vg/<n>  (lvm.go:244-252).  What it does to a volume
\* that is mounted is not relied upon: it refuses, or it removes the volume
\* and leaves the mount behind.
LvremoveResponses(n) ==
    LET gone == [lv EXCEPT ![n] = NoLV]
        staled == [m \in Names |->
                     [i \in 1..Len(mounts[m]) |->
                        IF mounts[m][i].dev = n
                        THEN [mounts[m][i] EXCEPT !.stale = TRUE]
                        ELSE mounts[m][i]]]
    IN  (IF ~lv[n].exists
         THEN NoEffect({Exit(5, <<"Failed to find logical volume">>)})
         ELSE IF InUse(n)
         THEN NoEffect({Exit(5, <<"contains a filesystem in use">>)})
              \cup {[run |-> RunOk, lv |-> gone, mounts |-> staled]}
         ELSE {[run |-> RunOk, lv |-> gone, mounts |-> mounts]})
        \cup NoEffect(FaultRuns)

\* os.MkdirAll(mountPath, 0777)  (lvm.go:278)
MkdirAllOutcomes == IF faulty THEN {TRUE, FALSE} ELSE {TRUE}

\***************************************************************************
\* The lifecycle operations, one action per external invocation
\***************************************************************************
Idle(p) == pc[p] = "idle"
MayStart(p) == Idle(p) /\ (serial => \A q \in Procs : Idle(q))
\* A logged invocation: the command, the outcome of its c.Run(), and what
\* the sub-step made of it: "ok", "err", or "nil" (a query without record).
Call(cmd, run, out) == [cmd |-> cmd, run |-> run, out |-> out, records |-> 0]
Out(err) == IF err # NoErr THEN "err" ELSE "ok"

Begin(p, o, at) ==
    /\ MayStart(p)
    /\ pc' = [pc EXCEPT ![p] = at]
    /\ op' = [op EXCEPT ![p] = o]
    /\ log' = [log EXCEPT ![p] = <<>>]
    /\ res' = [res EXCEPT ![p] = NoRes]
    /\ overlap' = IF \E q \in Procs \ {p} : ~Idle(q) /\ op[q].name = o.name
                  THEN overlap \cup {o.name} ELSE overlap
    /\ UNCHANGED <<faulty, serial, lv, mounts, dirs, handles, cin, cout, sizeIn, sizeOut>>

\* The sizes and tag lists callers give: all of them where the commands
\* answer as documented and calls run one at a time; one of each where the
\* specification explores failures or interleavings instead (neither value
\* steers the control flow of any operation).
AllInputs == serial /\ ~faulty
SizesGiven == IF AllInputs THEN Sizes ELSE {"1G"}
TagListsGiven == IF AllInputs THEN TagLists ELSE {<<Chars("o=a")>>}

\* A caller enters createThinLV (lvm.go:186).
CallCreate(p) ==
    \E n \in Names, size \in SizesGiven, tags \in TagListsGiven :
        Begin(p, [kind |-> "create", name |-> n, size |-> size, tags |-> tags],
              "lvcreate")

\* A caller enters findVolumeByVolumeID (lvm.go:179-184).
CallFind(p) ==
    \E n \in Names :
        Begin(p, [kind |-> "find", name |-> n, size |-> "", tags |-> <<>>], "lvs")

\* A caller enters deleteLV with a handle it was given earlier (lvm.go:239).
CallDelete(p) ==
    \E n \in handles :
        Begin(p, [kind |-> "delete", name |-> n, size |-> "", tags |-> <<>>],
              "umount")

\* One invocation: the call is logged, the command's effect applied, and
\* the operation either returns r (pc "done") or goes on at the next step.
Step(p, cmds, a, next, r) ==
    /\ log' = [log EXCEPT ![p] = @ \o cmds]
    /\ lv' = a.lv
    /\ mounts' = a.mounts
    /\ pc' = [pc EXCEPT ![p] = next]
    /\ res' = [res EXCEPT ![p] = r]
    /\ UNCHANGED <<faulty, serial, handles, op, overlap, cin, cout, sizeIn, sizeOut>>

\* createThinLV, the lvcreate invocation (lvm.go:204-223)
createThinLV_lvcreate(p) ==
    /\ pc[p] = "lvcreate"
    /\ \E a \in LvcreateResponses(op[p].name, op[p].size, op[p].tags) :
        LET err == lvcreateErr(a.run) IN
        /\ Step(p, <<Call("lvcreate", a.run, Out(err))>>, a,
                IF err # NoErr THEN "done" ELSE "mkfs",
                IF err # NoErr THEN Failed(err) ELSE NoRes)
        /\ UNCHANGED dirs

\* createThinLV, the format step (lvm.go:225-228)
createThinLV_mkfsExt4(p) ==
    /\ pc[p] = "mkfs"
    /\ \E a \in MkfsResponses(op[p].name) :
        LET err == mkfsExt4(a.run) IN
        /\ Step(p, <<Call("mkfs", a.run, Out(err))>>, a,
                IF err # NoErr THEN "done" ELSE "lvs",
                IF err # NoErr
                THEN Failed(<<"error formatting volume">> \o err) ELSE NoRes)
        /\ UNCHANGED dirs

\* What the enclosing operation returns for findVolumeByLVName's result:
\* findVolumeByVolumeID passes it on (lvm.go:183), createThinLV maps it.
Returned(p, found) ==
    IF op[p].kind = "create" THEN createThinLVResult(found) ELSE found

\* findVolumeByLVName, the query (lvm.go:133-139); the log entry keeps the
\* number of records runLVSReport handed to findLVInfo (lvm.go:262-268).
findVolumeByLVName_findLVInfoMkdirFirst(p) ==
    /\ pc[p] = "lvs"
    /\ \E q \in LvsResponses(op[p].name) :
        LET i == findLVInfo(vg, op[p].name, q.run, q.stdout)
            r == runLVSReport(vg \o "/" \o op[p].name, q.run, q.stdout)
            a == [lv |-> lv, mounts |-> mounts]
        IN
        /\ Step(p, <<[Call("lvs", q.run,
                          IF i.err = NoErr /\ ~i.found THEN "nil" ELSE Out(i.err))
                     EXCEPT !.records = Len(r.report)]>>, a,
                IF i.err # NoErr \/ ~i.found THEN "done" ELSE "mount",
                IF i.err # NoErr THEN Returned(p, Failed(i.err))
                ELSE IF ~i.found THEN Returned(p, NilRes)
                ELSE [NoRes EXCEPT !.info = i.info,
                                   !.path = volumePathOf(op[p].name)])
        /\ dirs' = dirs \cup {op[p].name}

findVolumeByLVName_findLVInfo(p) ==
    /\ pc[p] = "lvs"
    /\ \E q \in LvsResponses(op[p].name) :
        LET i == findLVInfo(vg, op[p].name, q.run, q.stdout)
            r == runLVSReport(vg \o "/" \o op[p].name, q.run, q.stdout)
            a == [lv |-> lv, mounts |-> mounts]
        IN
        /\ Step(p, <<[Call("lvs", q.run,
                          IF i.err = NoErr /\ ~i.found THEN "nil" ELSE Out(i.err))
                     EXCEPT !.records = Len(r.report)]>>, a,
                IF i.err # NoErr \/ ~i.found THEN "done" ELSE "mount",
                IF i.err # NoErr THEN Returned(p, Failed(i.err))
                ELSE IF ~i.found THEN Returned(p, NilRes)
                ELSE [NoRes EXCEPT !.info = i.info,
                                   !.path = volumePathOf(op[p].name)])
        /\ UNCHANGED dirs

\* findVolumeByLVName, the mount (lvm.go:140-151) through ensureMountLV
\* (lvm.go:275-307): MkdirAll, then /bin/mount unless MkdirAll failed.
findVolumeByLVName_ensureMountLV(p) ==
    /\ pc[p] = "mount"
    /\ \E mkdirOk \in MkdirAllOutcomes :
        IF mkdirOk
        THEN \E a \in MountResponses(res[p].info.lv_name, op[p].name) :
                LET err == ensureMountLV(TRUE, a.run) IN
                /\ dirs' = dirs \cup {op[p].name}
                /\ Step(p, <<Call("mkdir", RunOk, "ok"), Call("mount", a.run, Out(err))>>,
                        a, "done",
                        IF err # NoErr THEN Returned(p, Failed(err))
                        ELSE Returned(p, Handle(res[p].path, res[p].info)))
        ELSE /\ dirs' = dirs
             /\ Step(p, <<Call("mkdir", NotStarted, "err")>>,
                     [lv |-> lv, mounts |-> mounts], "done",
                     Returned(p, Failed(ensureMountLV(FALSE, RunOk))))

\* deleteLV, the unmount (lvm.go:240-242)
deleteLV_ensureUnmountLVSkipped(p) ==
    /\ pc[p] = "umount"
    /\ Step(p, <<>>, [lv |-> lv, mounts |-> mounts], "lvremove", NoRes)
    /\ UNCHANGED dirs

deleteLV_ensureUnmountLV(p) ==
    /\ pc[p] = "umount"
    /\ \E a \in UmountResponses(op[p].name) :
        LET err == ensureUnmountLV(a.run) IN
        /\ Step(p, <<Call("umount", a.run, Out(err))>>, a,
                IF err # NoErr THEN "done" ELSE "lvremove",
                IF err # NoErr THEN Failed(err) ELSE NoRes)
        /\ UNCHANGED dirs

\* deleteLV, the removal (lvm.go:244-258)
deleteLV_lvremove(p) ==
    /\ pc[p] = "lvremove"
    /\ \E a \in LvremoveResponses(op[p].name) :
        LET err == lvremoveErr(a.run) IN
        /\ Step(p, <<Call("lvremove", a.run, Out(err))>>, a, "done",
                IF err # NoErr THEN Failed(err) ELSE OkRes)
        /\ UNCHANGED dirs

\* The operation returns to its caller, who keeps a handle it was given.
Return(p) ==
    /\ pc[p] = "done"
    /\ pc' = [pc EXCEPT ![p] = "idle"]
    /\ handles' = IF res[p].kind = "handle" THEN handles \cup {op[p].name} ELSE handles
    /\ op' = [op EXCEPT ![p] = NoOp]
    /\ log' = [log EXCEPT ![p] = <<>>]
    /\ res' = [res EXCEPT ![p] = NoRes]
    /\ UNCHANGED <<faulty, serial, lv, mounts, dirs, overlap, cin, cout, sizeIn, sizeOut>>

\***************************************************************************
\* Specifications
\***************************************************************************
InitLVM ==
    /\ lv = [n \in Names |-> NoLV]
    /\ mounts = [n \in Names |-> <<>>]
    /\ dirs = {}
    /\ handles = {}
    /\ pc = [p \in Procs |-> "idle"]
    /\ op = [p \in Procs |-> NoOp]
    /\ log = [p \in Procs |-> <<>>]
    /\ res = [p \in Procs |-> NoRes]
    /\ overlap = {}
    /\ cin = NoIn
    /\ cout = NoOut

InitState == InitLVM /\ sizeIn = <<>> /\ sizeOut = NoSize

\* One call at a time, in an environment where any invocation may fail.
Init == InitState /\ faulty = TRUE /\ serial = TRUE

\* One call at a time, commands that answer as documented.
InitNominal == InitState /\ faulty = FALSE /\ serial = TRUE

\* Calls that interleave at invocation granularity, commands that answer
\* as documented.
InitConcurrent == InitState /\ faulty = FALSE /\ serial = FALSE

Next ==
    \E p \in Procs :
        \/ CallCreate(p)
        \/ CallFind(p)
        \/ CallDelete(p)
        \/ createThinLV_lvcreate(p)
        \/ createThinLV_mkfsExt4(p)
        \/ findVolumeByLVName_findLVInfo(p)
        \/ findVolumeByLVName_ensureMountLV(p)
        \/ deleteLV_ensureUnmountLV(p)
        \/ deleteLV_lvremove(p)
        \/ Return(p)

Spec == Init /\ [][Next]_vars

\* The external invocation a call is at.  Every one of them is started with
\* exec.CommandContext (lvm.go:98, 215, 248, 284, 311, 330), which kills the
\* process when the caller's context is cancelled, so that c.Run() returns:
\* an invocation that is in flight ends.
Invocation(p) ==
    \/ createThinLV_lvcreate(p)
    \/ createThinLV_mkfsExt4(p)
    \/ findVolumeByLVName_findLVInfo(p)
    \/ findVolumeByLVName_ensureMountLV(p)
    \/ deleteLV_ensureUnmountLV(p)
    \/ deleteLV_lvremove(p)

SpecCancel == Init /\ [][Next]_vars /\ \A p \in Procs : WF_vars(Invocation(p))

SpecNominal == InitNominal /\ [][Next]_vars

SpecConcurrent == InitConcurrent /\ [][Next]_vars

\***************************************************************************
\* Result classification on its own: every command with every outcome of
\* c.Run(), the query with and without a name filter and with every shape
\* of output document.
\***************************************************************************
ClassifyRuns ==
    {RunOk, NotStarted, Killed}
    \cup {Exit(c, e) : c \in {1, 5, 32},
                       e \in {<<>>, <<"Failed to find logical volume">>,
                              <<"already mounted on">>, <<"not mounted">>,
                              <<"warning", "Failed to find logical volume">>}}

ClassifyEntry == [lv_name |-> "a", lv_size |-> Chars("4194304B"), lv_tags |-> <<>>]
ClassifyDocs ==
    {BadJSON, Doc(<<>>), Doc(<< <<>> >>), Doc(<< <<ClassifyEntry>> >>),
     Doc(<< <<ClassifyEntry, ClassifyEntry>> >>), Doc(<< <<>>, <<>> >>),
     Doc(<< <<ClassifyEntry>>, <<ClassifyEntry>> >>),
     Doc(<< <<>>, <<ClassifyEntry>>, <<>> >>)}

Classified(c) ==
    CASE c.cmd = "lvs" -> runLVSReport(c.volumeName, c.run, c.stdout)
      [] c.cmd = "lvcreate" -> [err |-> lvcreateErr(c.run), report |-> <<>>]
      [] c.cmd = "mkfs" -> [err |-> mkfsExt4(c.run), report |-> <<>>]
      [] c.cmd = "mount" -> [err |-> ensureMountLV(c.mkdirOk, c.run), report |-> <<>>]
      [] c.cmd = "umount" -> [err |-> ensureUnmountLV(c.run), report |-> <<>>]
      [] c.cmd = "lvremove" -> [err |-> lvremoveErr(c.run), report |-> <<>>]

Classify ==
    /\ \E cmd \in {"lvs", "lvcreate", "mkfs", "mount", "umount", "lvremove"},
          run \in ClassifyRuns :
        \E volumeName \in IF cmd = "lvs" THEN {"", vg \o "/" \o "a"} ELSE {""},
           stdout \in IF cmd = "lvs" THEN ClassifyDocs ELSE {BadJSON} :
            /\ cin' = [cmd |-> cmd, volumeName |-> volumeName, run |-> run,
                       stdout |-> stdout, mkdirOk |-> TRUE]
            /\ cout' = Classified(cin')
    /\ UNCHANGED <<faulty, serial, lv, mounts, dirs, handles, pc, op, log, res,
                   overlap, sizeIn, sizeOut>>

SpecClassify == InitNominal /\ [][Classify]_vars

\***************************************************************************
\* The size conversion on its own: every string of up to MaxSizeLen
\* characters, the sizes lvs reports for the volumes created above, and the
\* strings at both ends of the 64-bit ranges.
\***************************************************************************
SizeAlphabet == {"0", "1", "9", "-", "+", "B", "b", "K"}
DigitChar(d) == CHOOSE c \in Digits : DigitVal(c) = d
Text(digits) == [i \in 1..Len(digits) |-> DigitChar(digits[i])]
\* 1<<63 - 1
MaxInt64 == <<9, 2, 2, 3, 3, 7, 2, 0, 3, 6, 8, 5, 4, 7, 7, 5, 8, 0, 7>>
\* 1<<63 + 1 and 1<<64
BeyondCutoff == <<9, 2, 2, 3, 3, 7, 2, 0, 3, 6, 8, 5, 4, 7, 7, 5, 8, 0, 9>>
BeyondUint64 == <<1, 8, 4, 4, 6, 7, 4, 4, 0, 7, 3, 7, 0, 9, 5, 5, 1, 6, 1, 6>>

SizeStrings ==
    UNION {[1..k -> SizeAlphabet] : k \in 0..MaxSizeLen}
    \cup {ReportedSize(z) : z \in Sizes}
    \cup {sign \o Text(m) \o unit :
            sign \in {<<>>, <<"+">>, <<"-">>, <<"0", "0">>},
            m \in {MaxInt64, CutoffInt64, BeyondCutoff, MaxUint64, BeyondUint64},
            unit \in {<<"B">>, <<"b">>, <<>>, <<"B", "B">>}}

InitSize ==
    /\ InitLVM
    /\ faulty = FALSE
    /\ serial = TRUE
    /\ sizeIn \in SizeStrings
    /\ sizeOut = NoSize

Size ==
    /\ sizeOut = NoSize
    /\ sizeOut' = VolumeSizeBytes(sizeIn)
    /\ UNCHANGED <<faulty, serial, lv, mounts, dirs, handles, pc, op, log, res,
                   overlap, cin, cout, sizeIn>>

SpecSize == InitSize /\ [][Size]_vars

\***************************************************************************
\* Properties
\***************************************************************************
Done(p) == pc[p] = "done"
Running(p, kind) == op[p].kind = kind
Cmds(p) == [i \in 1..Len(log[p]) |-> log[p][i].cmd]
Invoked(p, cmd) == \E i \in 1..Len(log[p]) : log[p][i].cmd = cmd
IsPrefix(s, t) == Len(s) <= Len(t) /\ s = SubSeq(t, 1, Len(s))
NotFoundRun == Exit(5, <<"Failed to find logical volume">>)
AlreadyMountedRun == Exit(32, <<"already mounted on">>)
NotMountedRun == Exit(32, <<"not mounted">>)

\* Key and value of a tag key=value.
KeyOf(tag) == SubSeq(tag, 1, IndexOf(tag, "=") - 1)
ValueOf(tag) == SubSeq(tag, IndexOf(tag, "=") + 1, Len(tag))
TagsOf(n) == {lv[n].tags[i] : i \in 1..Len(lv[n].tags)}

\* C1: with commands that answer as documented, findVolumeByVolumeID on a
\* volume that does not exist (never created, or created and deleted)
\* returns (nil, nil), never an error and never a handle, whatever was done
\* to other volumes before; the query's exit code 5 with the not-found
\* diagnostic is absorbed.
C1_FindAbsentIsNotFound ==
    \A p \in Procs :
        (Done(p) /\ Running(p, "find") /\ ~lv[op[p].name].exists)
            => res[p] = NilRes

\* C1 witness: a find of a volume that was created and deleted returned
\* (nil, nil) on the absorbed exit code 5 while another volume exists.
C1_Witness ==
    \E p \in Procs :
        /\ Done(p) /\ Running(p, "find")
        /\ ~lv[op[p].name].exists
        /\ op[p].name \in handles
        /\ \E m \in Names : lv[m].exists
        /\ log[p] = <<Call("lvs", NotFoundRun, "nil")>>
        /\ res[p] = NilRes

\* C2: in every deleteLV the unmount is invoked first, remove is invoked
\* only after an unmount that succeeded, and a delete whose unmount
\* succeeded (the volume was mounted) makes the calls unmount, remove.
C2_UnmountBeforeRemove ==
    \A p \in Procs :
        Running(p, "delete") =>
            /\ IsPrefix(Cmds(p), <<"umount", "lvremove">>)
            /\ Invoked(p, "lvremove") => log[p][1].run = RunOk
            /\ (Done(p) /\ log[p][1].run = RunOk) => Cmds(p) = <<"umount", "lvremove">>

\* C2 witness: a delete of a mounted volume completed with the calls
\* unmount, remove.
C2_Witness ==
    \E p \in Procs :
        /\ Done(p) /\ Running(p, "delete")
        /\ log[p] = <<Call("umount", RunOk, "ok"), Call("lvremove", RunOk, "ok")>>
        /\ res[p] = OkRes

\* C3 (as claimed): a deleteLV on a handle whose volume is already absent
\* is not reported as an error.
C3_DeleteAbsentNotError ==
    \A p \in Procs :
        ( /\ Done(p) /\ Running(p, "delete")
          /\ ~lv[op[p].name].exists
          /\ ~Invoked(p, "lvremove") )
            => res[p].kind # "error"

\* C4 (as claimed): a deleteLV of a volume that exists and whose mount is
\* already absent still attempts the remove.
C4_DeleteUnmountedStillRemoves ==
    \A p \in Procs :
        ( /\ Done(p) /\ Running(p, "delete")
          /\ lv[op[p].name].exists
          /\ log[p][1].run = NotMountedRun )
            => Invoked(p, "lvremove")

\* C5 (as claimed): after createThinLV returns an error, no logical volume
\* allocated by that call is left in the volume group.
C5_FailedCreateLeavesNoLV ==
    \A p \in Procs :
        ( /\ Done(p) /\ Running(p, "create")
          /\ res[p].kind = "error"
          /\ log[p][1] = Call("lvcreate", RunOk, "ok") )
            => ~lv[op[p].name].exists

\* C6: createThinLV invokes lvcreate, mkfs, the query, MkdirAll and mount in
\* that order, each at most once and only after every earlier sub-step
\* succeeded, and it returns an error exactly when its last sub-step failed
\* (or the query gave no record).
C6_CreateSubstepOrder ==
    \A p \in Procs :
        Running(p, "create") =>
            /\ IsPrefix(Cmds(p), <<"lvcreate", "mkfs", "lvs", "mkdir", "mount">>)
            /\ \A i \in 1..(Len(log[p]) - 1) :
                  log[p][i].out = "ok" /\ log[p][i].run = RunOk
            /\ ~Done(p) =>
                  \A i \in 1..Len(log[p]) : log[p][i].out = "ok" /\ log[p][i].run = RunOk
            /\ Done(p) =>
                  /\ log[p] # <<>>
                  /\ res[p].kind = "error" <=> log[p][Len(log[p])].out # "ok"
                  /\ res[p].kind = "handle" <=>
                        (Len(log[p]) = 5 /\ log[p][5].out = "ok")

\* C6 witness: a create failed at its format step, after a successful
\* lvcreate and before any query.
C6_Witness ==
    \E p \in Procs :
        /\ Done(p) /\ Running(p, "create")
        /\ Cmds(p) = <<"lvcreate", "mkfs">>
        /\ log[p][1].run = RunOk
        /\ log[p][2].run # RunOk
        /\ res[p].kind = "error"

\* C7: when the query after a successful lvcreate and mkfs returns no
\* record, createThinLV returns the "could not find LV info" error; it
\* never returns (nil, nil).
C7_CreateMissingRecordIsError ==
    \A p \in Procs :
        (Done(p) /\ Running(p, "create")) =>
            /\ res[p].kind \in {"handle", "error"}
            /\ (Len(log[p]) = 3 /\ log[p][3].out = "nil") =>
                  res[p] = Failed(<<"could not find LV info for newly created volume">>)

\* C7 witness: a create whose lvcreate and mkfs succeeded and whose query
\* returned no record has returned.
C7_Witness ==
    \E p \in Procs :
        /\ Done(p) /\ Running(p, "create")
        /\ Cmds(p) = <<"lvcreate", "mkfs", "lvs">>
        /\ log[p][1].out = "ok" /\ log[p][2].out = "ok" /\ log[p][3].out = "nil"
        /\ res[p].kind = "error"

\* C8: with commands that answer as documented, every ensureMountLV
\* succeeds, the one that finds the path already mounted included (mount's
\* exit code 32 with the already-mounted diagnostic is absorbed), and the
\* path then holds exactly one mount entry, that of the volume.
C8_EnsureMountIdempotent ==
    \A p \in Procs :
        (Done(p) /\ Invoked(p, "mount")) =>
            /\ res[p].kind = "handle"
            /\ mounts[op[p].name] = <<[dev |-> op[p].name, stale |-> FALSE]>>

\* C8 witness: a find of a volume an earlier call had mounted returned a
\* handle on the absorbed exit code 32, with one mount entry on the path.
C8_Witness ==
    \E p \in Procs :
        /\ Done(p) /\ Running(p, "find")
        /\ op[p].name \in handles
        /\ log[p][3] = Call("mount", AlreadyMountedRun, "ok")
        /\ res[p].kind = "handle"
        /\ Len(mounts[op[p].name]) = 1

\* A find of an existing volume has returned.
FoundExisting(p) == Done(p) /\ Running(p, "find") /\ lv[op[p].name].exists

\* It returned the handle of that volume, on which no key that was not
\* given at creation is found.
HandleOfVolume(p) ==
    LET n == op[p].name IN
    /\ res[p].kind = "handle"
    /\ res[p].info.lv_name = n
    /\ res[p].path = volumePathOf(n)
    /\ \A k \in Keys :
          (\A t \in TagsOf(n) : KeyOf(t) # k) =>
              FindTag(res[p].info, k) = [v |-> <<>>, found |-> FALSE]

\* C9 (as claimed): after a successful createThinLV(name, size, tags),
\* findVolumeByVolumeID(name) returns a handle for name whose FindTag(k) is
\* (v, true) for every tag k=v given and ("", false) for every key not given.
C9_RoundTripEveryTag ==
    \A p \in Procs :
        FoundExisting(p) =>
            /\ HandleOfVolume(p)
            /\ \A t \in TagsOf(op[p].name) :
                  FindTag(res[p].info, KeyOf(t)) = [v |-> ValueOf(t), found |-> TRUE]

\* C9 (amended): ... whose FindTag(k) is (v, true) for a tag k=v given at
\* creation (the only one when the key was given once, one of them when
\* several tags share the key) and ("", false) for every key not given.
C9_RoundTripSomeTag ==
    \A p \in Procs :
        FoundExisting(p) =>
            /\ HandleOfVolume(p)
            /\ \A t \in TagsOf(op[p].name) :
                  LET f == FindTag(res[p].info, KeyOf(t)) IN
                  /\ f.found
                  /\ \E u \in TagsOf(op[p].name) :
                        KeyOf(u) = KeyOf(t) /\ f.v = ValueOf(u)

\* C9 witness: a find returned the handle of a volume created with the
\* tags ow=a and o=b, and FindTag("o") on it is ("b", true).
C9_Witness ==
    \E p \in Procs :
        /\ Done(p) /\ Running(p, "find")
        /\ res[p].kind = "handle"
        /\ lv[op[p].name].tags = <<Chars("ow=a"), Chars("o=b")>>
        /\ FindTag(res[p].info, Chars("o")) = [v |-> Chars("b"), found |-> TRUE]
        /\ FindTag(res[p].info, Chars("w")) = [v |-> <<>>, found |-> FALSE]

\* C10: an invocation that did not exit with 0 is returned as an execution
\* error except in two cases: a query with a name filter that exits with 5
\* and the not-found diagnostic (it goes on to read the output document,
\* and yields zero records from an empty report), and a mount that exits
\* with 32 and the already-mounted diagnostic (success).  The same exit of a
\* query without filter, and any failure of lvcreate, mkfs, umount or
\* lvremove, is an error.
C10_ResultClassification ==
    cin.cmd # "" =>
        LET notFound ==
                /\ cin.run.kind = "exit" /\ cin.run.code = 5
                /\ Contains(cin.run.stderr, "Failed to find logical volume")
            alreadyMounted ==
                /\ cin.run.kind = "exit" /\ cin.run.code = 32
                /\ Contains(cin.run.stderr, "already mounted on")
            benignQuery == cin.cmd = "lvs" /\ cin.volumeName # "" /\ notFound
            benignMount == cin.cmd = "mount" /\ alreadyMounted
        IN  /\ cin.run.kind # "ok" =>
                  (cout.err = ErrRun <=> ~(benignQuery \/ benignMount))
            /\ benignMount => cout.err = NoErr
            /\ (benignQuery /\ cin.stdout = Doc(<< <<>> >>)) => cout = NoOut
            /\ (cin.run.kind = "ok" /\ cin.cmd # "lvs") => cout.err = NoErr

\* C10 witness: a query without name filter that exited with 5 and the
\* not-found diagnostic was classified as an error.
C10_Witness ==
    /\ cin.cmd = "lvs" /\ cin.volumeName = ""
    /\ cin.run = NotFoundRun
    /\ cin.stdout = Doc(<< <<>> >>)
    /\ cout.err = ErrRun

\* C11: a query whose output document has zero report sections, or two or
\* more, fails with an error and yields no records, whatever the command's
\* exit was; a document with exactly one report section holding zero
\* entries, printed by a command that exited 0, is an empty result without
\* error, with and without a name filter.
C11_ReportShapeGuard ==
    (cin.cmd = "lvs" /\ cin.stdout.json) =>
        /\ Len(cin.stdout.reports) # 1 =>
                /\ cout.err # NoErr
                /\ cout.report = <<>>
                /\ (cin.run = RunOk =>
                        cout.err = <<"got n reports, expected exactly 1">>)
        /\ (cin.run = RunOk /\ cin.stdout = Doc(<< <<>> >>)) =>
                cout = [err |-> NoErr, report |-> <<>>]
        /\ (cin.run = RunOk /\ Len(cin.stdout.reports) = 1) =>
                cout = [err |-> NoErr, report |-> cin.stdout.reports[1]]

C11_Witness ==
    /\ cin.cmd = "lvs"
    /\ cin.run = RunOk
    /\ cin.stdout = Doc(<< <<ClassifyEntry>>, <<ClassifyEntry>> >>)
    /\ cout = [err |-> <<"got n reports, expected exactly 1">>, report |-> <<>>]

\* C12: when the query by name of a lookup returns more than one record, the
\* lookup returns an error and no handle, picks none of the records, creates
\* no mount directory and issues no mount invocation.
C12_MultipleRecordsIsError ==
    \A p \in Procs :
        (op[p].kind = "find"
         /\ \E i \in 1..Len(log[p]) : log[p][i].cmd = "lvs" /\ log[p][i].records > 1) =>
            /\ Done(p)
            /\ res[p] = Failed(<<"unexpectedly found multiple logical volumes">>)
            /\ Cmds(p) = <<"lvs">>
            /\ ~Invoked(p, "mkdir")
            /\ ~Invoked(p, "mount")

C12_Witness ==
    \E p \in Procs :
        /\ Done(p)
        /\ op[p].kind = "find"
        /\ Len(log[p]) = 1
        /\ log[p][1].records = 2
        /\ res[p].kind = "error"
        /\ op[p].name \notin dirs

\* C13: VolumeSizeBytes returns n for every size string made of a base-10
\* integer n within the int64 range (an optional sign, then digits) and
\* exactly one final 'B' or 'b', and an error for every other string.
RECURSIVE StripZeros(_)
StripZeros(ds) ==
    IF ds # <<>> /\ ds[1] = 0 THEN StripZeros(Tail(ds)) ELSE ds

RECURSIVE ValueOfDigits(_)
ValueOfDigits(ds) ==
    IF ds = <<>> THEN 0 ELSE 10 * ValueOfDigits(SubSeq(ds, 1, Len(ds) - 1)) + ds[Len(ds)]

C13_VolumeSizeBytes ==
    LET s == sizeIn
        prefix == SubSeq(s, 1, Len(s) - 1)
        signed == prefix # <<>> /\ prefix[1] \in {"+", "-"}
        negative == prefix # <<>> /\ prefix[1] = "-"
        body == IF signed THEN Tail(prefix) ELSE prefix
        isInteger == body # <<>> /\ \A i \in 1..Len(body) : body[i] \in Digits
        magnitude == StripZeros([i \in 1..Len(body) |-> DigitVal(body[i])])
        inRange == IF negative THEN ~MagLess(CutoffInt64, magnitude)
                   ELSE ~MagLess(MaxInt64, magnitude)
        wellFormed ==
            /\ s # <<>>
            /\ s[Len(s)] \in {"B", "b"}
            /\ isInteger
            /\ inRange
    IN  sizeOut # NoSize =>
            IF wellFormed
            THEN /\ sizeOut.err = NoErr
                 /\ sizeOut.n.mag = magnitude
                 /\ sizeOut.n.neg = (negative /\ magnitude # <<>>)
                 /\ Len(body) <= 9 =>
                        ValueOfDigits(sizeOut.n.mag)
                            = ValueOfDigits([i \in 1..Len(body) |-> DigitVal(body[i])])
            ELSE /\ sizeOut.err # NoErr
                 /\ sizeOut.n = Int64(FALSE, <<>>)

C13_Witness ==
    /\ sizeIn = <<"-">> \o Text(CutoffInt64) \o <<"b">>
    /\ sizeOut = Parsed(NoErr, Int64(TRUE, CutoffInt64))

\* Every mount on /volumes/vg/<n> is of the existing volume /dev/vg/<n>.
MountsOfNamedLV(n) ==
    \A i \in 1..Len(mounts[n]) :
        /\ mounts[n][i].dev = n
        /\ ~mounts[n][i].stale
        /\ lv[n].exists

\* A call on n that has returned a handle has the volume of the returned
\* record mounted at the returned path.
ReturnedHandleMounted(n) ==
    \A p \in Procs :
        (Done(p) /\ op[p].name = n /\ res[p].kind = "handle") =>
            /\ res[p].path = volumePathOf(n)
            /\ res[p].info.lv_name = n
            /\ LiveOn(n, n)

\* C14 as claimed: in every reachable state the device mounted at a mount
\* point /volumes/vg/<n> is the logical volume /dev/vg/<n>.
C14_MountedDeviceEveryState == \A n \in Names : MountsOfNamedLV(n)

\* C14, amended: as long as the calls on a name run one at a time, every
\* mount on /volumes/vg/<n> is of the logical volume /dev/vg/<n>, and a
\* call that returned a handle has the volume of the returned record
\* mounted at the returned path; whatever runs meanwhile on other names.
C14_MountedDeviceOneAtATime ==
    \A n \in Names :
        n \notin overlap => (MountsOfNamedLV(n) /\ ReturnedHandleMounted(n))

C14_Witness ==
    \E p \in Procs :
        /\ Done(p)
        /\ op[p].kind = "find"
        /\ op[p].name \notin overlap
        /\ res[p].kind = "handle"
        /\ log[p][Len(log[p])] = Call("mount", AlreadyMountedRun, "ok")
        /\ LiveOn(op[p].name, op[p].name)
        /\ \E q \in Procs : pc[q] \notin {"idle", "done"}

\* C15: unmount-before-remove holds per call only.  Every deleteLV invokes
\* lvremove only after its own umount succeeded; yet with a lookup of the
\* same volume interleaved the volume can be mounted when lvremove is
\* invoked, and a mount without logical volume can remain.  Both happen
\* only on names on which two calls were in progress at once.
C15_UnmountBeforeRemovePerCall ==
    /\ \A p \in Procs :
            op[p].kind = "delete" =>
                /\ (pc[p] = "lvremove" \/ Invoked(p, "lvremove")) =>
                        log[p][1] = Call("umount", RunOk, "ok")
                /\ (pc[p] = "lvremove" /\ Mounted(op[p].name)) =>
                        op[p].name \in overlap
    /\ \A n \in Names : (Mounted(n) /\ ~lv[n].exists) => n \in overlap

C15_Witness ==
    \E p, q \in Procs :
        /\ Done(p)
        /\ op[p].kind = "delete"
        /\ Cmds(p) = <<"umount", "lvremove">>
        /\ res[p] = OkRes
        /\ op[q].kind = "find"
        /\ op[q].name = op[p].name
        /\ Done(q)
        /\ log[q][Len(log[q])] = Call("mount", RunOk, "ok")
        /\ res[q].kind = "handle"
        /\ Mounted(op[p].name)
        /\ ~lv[op[p].name].exists

\* C16: calls on different names do not interfere under any interleaving.
\* A step changes the existence, the mounts and the mount directory of a
\* name only when it is a step of a call on that name; and on a name whose
\* calls did not overlap each other every result is the one the call gives
\* when it runs alone, whatever runs on the other name at the same time.
TouchedBy(n) ==
    \E p \in Procs : op[p].name = n /\ pc'[p] # pc[p] /\ log'[p] # log[p]

ResultAsAlone(p) ==
    LET n == op[p].name IN
    CASE op[p].kind = "find" ->
            /\ res[p].kind \in {"handle", "nil"}
            /\ res[p].kind = "handle" <=> lv[n].exists
            /\ res[p].kind = "handle" => LiveOn(n, n)
      [] op[p].kind = "create" ->
            /\ res[p].kind \in {"handle", "error"}
            /\ res[p].kind = "handle" => (lv[n].exists /\ LiveOn(n, n))
            /\ res[p].kind = "error" => Cmds(p) = <<"lvcreate">>
      [] op[p].kind = "delete" ->
            /\ res[p].kind \in {"ok", "error"}
            /\ res[p].kind = "ok" => (~lv[n].exists /\ ~Mounted(n))
            /\ res[p].kind = "error" => Cmds(p) = <<"umount">>

C16_DifferentNamesDoNotInterfere ==
    /\ [][\A n \in Names :
            (lv'[n] # lv[n] \/ mounts'[n] # mounts[n] \/ (n \in dirs') # (n \in dirs))
                => TouchedBy(n)]_vars
    /\ [](\A p \in Procs : (Done(p) /\ op[p].name \notin overlap) => ResultAsAlone(p))

C16_Witness ==
    \E p, q \in Procs :
        /\ op[p].name = "a"
        /\ op[q].name = "b"
        /\ overlap = {}
        /\ op[p].kind = "delete"
        /\ pc[p] = "lvremove"
        /\ op[q].kind = "find"
        /\ pc[q] = "mount"
        /\ LiveOn("b", "b")
        /\ ~Mounted("a")

\* C17: an invocation killed by the cancellation of the caller's context is
\* returned as an error by its sub-step, never absorbed as not-found or
\* already-mounted; it is the last invocation of the call, which returns an
\* error ending in that failure; and every call with an invocation in
\* flight returns.
KilledIsFinal(p) ==
    \A i \in 1..Len(log[p]) :
        log[p][i].run = Killed =>
            /\ i = Len(log[p])
            /\ log[p][i].out = "err"
            /\ Done(p)
            /\ res[p].kind = "error"
            /\ SubSeq(res[p].err, Len(res[p].err), Len(res[p].err)) = ErrRun

C17_CancellationFails ==
    /\ [](\A p \in Procs : KilledIsFinal(p))
    /\ \A p \in Procs : (pc[p] \notin {"idle", "done"}) ~> (pc[p] = "done")

C17_Witness ==
    \E p \in Procs :
        /\ Done(p)
        /\ op[p].kind = "create"
        /\ Cmds(p) = <<"lvcreate", "mkfs", "lvs", "mkdir", "mount">>
        /\ log[p][5] = Call("mount", Killed, "err")
        /\ res[p].kind = "error"
        /\ ~Mounted(op[p].name)

\* C18: a lookup runs the query, then the creation of the mount directory,
\* then the mount, each only after the one before it succeeded (the query
\* with a record); when it returns a handle all three were made, the mount
\* directory exists and the volume is mounted at the handle's path
\* /volumes/vg/<name>, whether the mount was made or found by this call.
C18_FindSubstepOrder ==
    \A p \in Procs :
        op[p].kind = "find" =>
            /\ IsPrefix(Cmds(p), <<"lvs", "mkdir", "mount">>)
            /\ \A i \in 1..(Len(log[p]) - 1) : log[p][i].out = "ok"
            /\ (Done(p) /\ res[p].kind = "handle") =>
                    /\ Cmds(p) = <<"lvs", "mkdir", "mount">>
                    /\ log[p][1].records = 1
                    /\ log[p][3].out = "ok"
                    /\ lv[op[p].name].exists
                    /\ op[p].name \in dirs
                    /\ res[p].path = volumePathOf(op[p].name)
                    /\ LiveOn(op[p].name, op[p].name)

C18_Witness ==
    \E p \in Procs :
        /\ Done(p)
        /\ op[p].kind = "find"
        /\ res[p].kind = "handle"
        /\ log[p][3] = Call("mount", RunOk, "ok")
        /\ LiveOn(op[p].name, op[p].name)

\* C19: with one call at a time and any invocation failing, a mount point
\* is mounted only if its logical volume exists: every mount of a call
\* follows a query of that call that reported the volume, and every
\* lvremove follows the successful umount of its call.
C19_NoLeakedMounts ==
    /\ \A n \in Names : Mounted(n) => (lv[n].exists /\ LiveOn(n, n))
    /\ \A p \in Procs :
            /\ Invoked(p, "mount") =>
                    \E i \in 1..Len(log[p]) :
                        /\ log[p][i].cmd = "lvs"
                        /\ log[p][i].out = "ok"
                        /\ log[p][i].records = 1
                        /\ log[p][i + 2].cmd = "mount"
            /\ Invoked(p, "lvremove") => log[p][1] = Call("umount", RunOk, "ok")

C19_Witness ==
    \E p \in Procs :
        /\ Done(p)
        /\ op[p].kind = "delete"
        /\ log[p] = <<Call("umount", RunOk, "ok"), Call("lvremove", Killed, "err")>>
        /\ lv[op[p].name].exists
        /\ ~Mounted(op[p].name)

\* C20: the query step of a lookup changes nothing, so a lookup that
\* returns not-found or fails in its query has made the query as its only
\* invocation, has created no mount directory, and has left the existence
\* and the mounts of every volume, and the handles held, as they were.
C20_LookupWithoutHandleChangesNothing ==
    [][\A p \in Procs :
        (op[p].kind = "find" /\ pc[p] = "lvs" /\ pc'[p] # "lvs") =>
            /\ lv' = lv
            /\ mounts' = mounts
            /\ dirs' = dirs
            /\ handles' = handles
            /\ Len(log'[p]) = 1
            /\ log'[p][1].cmd = "lvs"
            /\ pc'[p] \in {"done", "mount"}
            /\ pc'[p] = "done" <=> res'[p].kind \in {"nil", "error"}]_vars

C20_Witness ==
    \E p \in Procs :
        /\ Done(p)
        /\ op[p].kind = "find"
        /\ res[p].kind = "error"
        /\ Cmds(p) = <<"lvs">>
        /\ lv[op[p].name].exists
        /\ Mounted(op[p].name)
        /\ lv["b"].exists

====
